---- MODULE Spec2Model ----
(***************************************************************************)
(* Model of the invoice backend (src/app.py): the /generate-invoice and    *)
(* /download-draft-preview handlers, invoice numbering, the items table    *)
(* of the PDF builder, and the external collaborators they touch (the      *)
(* Invoices and Drafts sheets, the /tmp directory, the mail relay and the  *)
(* archive folder).  Text is modelled as sequences of pieces so that       *)
(* formatting is computed, not assumed.                                    *)
(***************************************************************************)
EXTENDS Integers, Sequences, FiniteSets, TLC

\* ------------------------------------------------------------------ bounds
NumRequests == 2     \* HTTP requests handled in one behaviour
MaxNow == 1          \* the clock is read at seconds 0 to MaxNow
InitDraftRows == 2   \* rows the Drafts sheet starts with (header included)
MaxItems == 3        \* longest item list given to the PDF builder alone
MaxKeyLen == 3       \* longest column header given to the key normalizer alone

\* Requests are numbered in the order they arrive.
Reqs == 1..NumRequests

VARIABLES
    now,          \* datetime.now(), in seconds
    sheet,        \* rows of the Invoices worksheet, row 1 first
    draftRows,    \* number of rows of the Drafts worksheet
    tmp,          \* /tmp: path -> the request whose render wrote the file
    mailbox,      \* messages the relay accepted
    drive,        \* files created in the archive folder
    pc,           \* where each request's handler stands
    kind,         \* which endpoint a request was sent to
    data,         \* the request's JSON body
    invoice_num,  \* the number assigned to the request
    seen,         \* len(records) read by get_next_invoice_number, -1: read failed
    pdf,          \* (pdf_path, file_name, grand_total) returned by the builder
    emailRes,     \* outcome of send_email_with_attachment
    ledgerRes,    \* outcome of add_invoice_to_sheet: "ok", or what failed
    uploadRes,    \* outcome of upload_to_google_drive
    fileRes,      \* what became of the artifact this request wrote
    resp,         \* HTTP response
    pdf_in,       \* item list handed to the builder (builder-only runs)
    pdf_out,      \* what the builder made of pdf_in
    key_in,       \* a column header of a sheet (normalizer-only runs)
    key_out,      \* the record key made of key_in
    mail_in,      \* SMTP settings and attachment given to the mail function alone
    mail          \* where a call of send_email_with_attachment alone stands

vars == << now, sheet, draftRows, tmp, mailbox, drive, pc, kind, data,
           invoice_num, seen, pdf, emailRes, ledgerRes, uploadRes, fileRes,
           resp, pdf_in, pdf_out, key_in, key_out, mail_in, mail >>

\* --------------------------------------------------------------- text helpers
\* Text is a sequence of one-character (or literal) strings.
DigitChars == { "0", "1", "2", "3", "4", "5", "6", "7", "8", "9" }
DigitOf(c) ==
    CASE c = "0" -> 0 [] c = "1" -> 1 [] c = "2" -> 2 [] c = "3" -> 3
      [] c = "4" -> 4 [] c = "5" -> 5 [] c = "6" -> 6 [] c = "7" -> 7
      [] c = "8" -> 8 [] c = "9" -> 9
CharOf(d) == CHOOSE c \in DigitChars : DigitOf(c) = d

RECURSIVE Digits(_)
\* str(n) for n >= 0
Digits(n) ==
    IF n < 10 THEN << CharOf(n) >> ELSE Append(Digits(n \div 10), CharOf(n % 10))

RECURSIVE ZeroPad(_, _)
\* the ":0wd" part of a format spec: zeros on the left up to width w, never cut
ZeroPad(ds, w) == IF Len(ds) >= w THEN ds ELSE ZeroPad(<< "0" >> \o ds, w)

RECURSIVE DigitsValue(_)
\* int(s) of a digit string
DigitsValue(ds) ==
    IF ds = << >> THEN 0
    ELSE 10 * DigitsValue(SubSeq(ds, 1, Len(ds) - 1)) + DigitOf(ds[Len(ds)])

\* f"${x:.2f}" of an amount held in cents
Money(c) ==
    << "$" >> \o Digits(c \div 100) \o << ".", CharOf((c % 100) \div 10), CharOf(c % 10) >>

\* str.replace(' ', '_')
ReplaceSpaces(s) == [ i \in 1..Len(s) |-> IF s[i] = " " THEN "_" ELSE s[i] ]

\* ------------------------------------------------------------- request data
\* A JSON value of an item field: a number, a string, null, or no such key.
\* Quantities are held in units, prices and totals in cents.
Num(n) == [ t |-> "num", n |-> n, s |-> << >> ]
Str(s) == [ t |-> "str", n |-> 0, s |-> s ]
Null == [ t |-> "null", n |-> 0, s |-> << >> ]
Absent == [ t |-> "absent", n |-> 0, s |-> << >> ]

\* float(v) as a lenient parse would have it: what does not convert counts as 0
Float_Lenient(v) ==
    CASE v.t = "num" -> [ ok |-> TRUE, v |-> v.n ]
      [] v.t = "str" ->
            IF v.s # << >> /\ \A i \in 1..Len(v.s) : v.s[i] \in DigitChars
            THEN [ ok |-> TRUE, v |-> DigitsValue(v.s) ]
            ELSE [ ok |-> TRUE, v |-> 0 ]
      [] OTHER -> [ ok |-> TRUE, v |-> 0 ]

\* float(v): ok is FALSE where Python raises ValueError (a string that is no
\* number) or TypeError (None)
Float(v) ==
    CASE v.t = "num" -> [ ok |-> TRUE, v |-> v.n ]
      [] v.t = "str" ->
            IF v.s # << >> /\ \A i \in 1..Len(v.s) : v.s[i] \in DigitChars
            THEN [ ok |-> TRUE,
                   v |-> DigitsValue(v.s) ]
            ELSE [ ok |-> FALSE, v |-> 0 ]
      [] OTHER -> [ ok |-> FALSE, v |-> 0 ]

\* dict.get(key, default)
Get(v, default) == IF v.t = "absent" THEN default ELSE v

\* re.match(r'^[a-zA-Z0-9._%+-]+@[a-zA-Z0-9.-]+\.[a-zA-Z]{2,}$', email)
Letters == { "a", "b", "c", "e", "i", "l", "m", "n", "o", "t" }
LocalChars == Letters \cup DigitChars \cup { ".", "_", "%", "+", "-" }
DomainChars == Letters \cup DigitChars \cup { ".", "-" }
is_valid_email(email) ==
    \E i, j \in 1..Len(email) :
        /\ email[i] = "@" /\ i > 1
        /\ \A k \in 1..(i - 1) : email[k] \in LocalChars
        /\ email[j] = "." /\ j > i + 1
        /\ \A k \in (i + 1)..(j - 1) : email[k] \in DomainChars
        /\ Len(email) - j >= 2
        /\ \A k \in (j + 1)..Len(email) : email[k] \in Letters

\* datetime.strptime(date, '%m/%d/%Y') returns (TRUE) or raises ValueError
DaysIn(m, y) ==
    IF m \in { 4, 6, 9, 11 } THEN 30
    ELSE IF m # 2 THEN 31
    ELSE IF y % 4 = 0 /\ (y % 100 # 0 \/ y % 400 = 0) THEN 29 ELSE 28
IsNumber(s, lo, hi) ==
    /\ Len(s) \in lo..hi
    /\ \A k \in 1..Len(s) : s[k] \in DigitChars
strptime(date) ==
    \E i, j \in 1..Len(date) :
        /\ i < j /\ date[i] = "/" /\ date[j] = "/"
        /\ LET m == SubSeq(date, 1, i - 1)
               d == SubSeq(date, i + 1, j - 1)
               y == SubSeq(date, j + 1, Len(date))
           IN  /\ IsNumber(m, 1, 2) /\ IsNumber(d, 1, 2) /\ IsNumber(y, 4, 4)
               /\ DigitsValue(m) \in 1..12
               /\ DigitsValue(y) >= 1
               /\ DigitsValue(d) \in 1..DaysIn(DigitsValue(m), DigitsValue(y))

\* Request bodies the clients send
GoodEmail == << "a", "@", "b", ".", "c", "o" >>
BadEmail == << "n", "o", "t", "-", "a", "n", "-", "e", "m", "a", "i", "l" >>
GoodDate == << "0", "1", "/", "1", "5", "/", "2", "0", "2", "5" >>
BadDate == << "2", "0", "2", "5", "-", "0", "1", "-", "1", "5" >>
VendorAB == << "a", " ", "b" >>
VendorC == << "c" >>
Item(name, q, p) == [ item |-> << name >>, quantity |-> q, price |-> p ]
TwoItems == << Item("ladoo", Num(2), Num(300)), Item("barfi", Num(1), Num(400)) >>
MixedItems == << Item("jalebi", Str(<< "x" >>), Num(300)),
                 Item("barfi", Str(<< "3" >>), Num(400)) >>

Body(name, email, date, items, row) ==
    [ vendor_name |-> name, vendor_email |-> email, vendor_address |-> "street",
      vendor_city |-> "city", vendor_phone |-> "555", date |-> date,
      items |-> items, notes |-> "", row_number |-> row ]
NoData ==
    [ vendor_name |-> << >>, vendor_email |-> << >>, vendor_address |-> "",
      vendor_city |-> "", vendor_phone |-> "", date |-> << >>,
      items |-> << >>, notes |-> "", row_number |-> 0 ]
Bodies ==
    { Body(VendorAB, GoodEmail, GoodDate, TwoItems, 0),
      Body(VendorC, GoodEmail, GoodDate, MixedItems, 2),
      Body(VendorAB, BadEmail, GoodDate, TwoItems, 0),
      Body(VendorAB, GoodEmail, BadDate, TwoItems, 0),
      Body(VendorAB, << >>, GoodDate, TwoItems, 0),
      NoData }

\* "not data": the body is empty
IsEmpty(d) == d = NoData
\* [field for field in required_fields if not data.get(field)]
MissingFields(d) ==
    { f \in { "vendor_name", "vendor_email", "date", "items" } : d[f] = << >> }
    \cup { f \in { "vendor_address", "vendor_city", "vendor_phone" } : d[f] = "" }

\* ------------------------------------------------------------ the PDF builder
\* file_name and pdf_path of create_invoice_pdf
FileName(num, vendor) == num \o << "_" >> \o ReplaceSpaces(vendor) \o << ".pdf" >>
PdfPath(num, vendor) == << "/tmp", "/" >> \o FileName(num, vendor)

TableHeader == << << "Item Description" >>, << "Quantity" >>, << "Unit Price" >>, << "Total" >> >>

\* The loop over data['items']: a row and its total for an item whose quantity
\* and price both convert; "except (ValueError, TypeError): continue" for any
\* other item, so the loop never raises.
RECURSIVE ItemLoop(_, _, _)
ItemLoop(items, table_data, grand_total) ==
    IF items = << >>
    THEN [ table_data |-> table_data, grand_total |-> grand_total, raised |-> FALSE ]
    ELSE LET item == Head(items)
             quantity == Float(Get(item.quantity, Num(1)))
             price == Float(Get(item.price, Num(0)))
             total == quantity.v * price.v
         IN  IF quantity.ok /\ price.ok
             THEN ItemLoop(Tail(items),
                           Append(table_data,
                                  << item.item, Digits(quantity.v) \o << ".", "0" >>,
                                     Money(price.v), Money(total) >>),
                           grand_total + total)
             ELSE ItemLoop(Tail(items), table_data, grand_total)

ItemsTable(items) == ItemLoop(items, << TableHeader >>, 0)

NoPdf == [ pdf_path |-> << >>, file_name |-> << >>, grand_total |-> 0 ]
\* create_invoice_pdf raises when the date does not parse (line 130)
RenderRaises(d) == ~strptime(d.date) \/ ItemsTable(d.items).raised
\* (pdf_path, file_name, grand_total)
create_invoice_pdf(num, d) ==
    [ pdf_path |-> PdfPath(num, d.vendor_name),
      file_name |-> FileName(num, d.vendor_name),
      grand_total |-> ItemsTable(d.items).grand_total ]

\* ------------------------------------------------------------- the ledger
HeaderRow ==
    << << "Timestamp" >>, << "Invoice #" >>, << "Invoice Date" >>, << "Vendor Name" >>,
       << "Vendor Email" >>, << "Total" >>, << "Notes" >>, << "Status" >>, << "Items" >> >>

\* worksheet.get_all_records(): row 1 is the header, every row below a record
get_all_records(rows) == IF Len(rows) <= 1 THEN << >> ELSE SubSeq(rows, 2, Len(rows))

\* the number with the "+ 1" forgotten
SequentialNumber_OffByOne(records) == << "INV-" >> \o ZeroPad(Digits(Len(records)), 4)
\* f"INV-{(len(records) + 1):04d}"
SequentialNumber(records) == << "INV-" >> \o ZeroPad(Digits(Len(records) + 1), 4)
\* f"INV-TS-{int(datetime.now().timestamp())}"
FallbackNumber(t) == << "INV-TS-" >> \o Digits(t)

\* str() of an item's quantity as item_summary prints it
QtyText(v) ==
    CASE v.t = "num" -> Digits(v.n)
      [] v.t = "str" -> v.s
      [] v.t = "null" -> << "None" >>
      [] OTHER -> << "0" >>
RECURSIVE ItemSummary(_)
ItemSummary(items) ==
    IF items = << >> THEN << >>
    ELSE Head(items).item \o << " (x" >> \o QtyText(Head(items).quantity) \o << ")" >>
         \o (IF Len(items) > 1 THEN << ", " >> ELSE << >>) \o ItemSummary(Tail(items))

\* new_row with the total written as the bare number of cents
NewRow_RawTotal(t, num, d, grand_total) ==
    << Digits(t), num, d.date, d.vendor_name, d.vendor_email, Digits(grand_total),
       << d.notes >>, << "Due" >>, ItemSummary(d.items) >>

\* new_row of add_invoice_to_sheet
NewRow(t, num, d, grand_total) ==
    << Digits(t), num, d.date, d.vendor_name, d.vendor_email, Money(grand_total),
       << d.notes >>, << "Due" >>, ItemSummary(d.items) >>

\* the rows after add_invoice_to_sheet's appends: the header first when the
\* read returned no records
AfterAppend(rows, new_row) ==
    IF get_all_records(rows) = << >>
    THEN rows \o << HeaderRow, new_row >>
    ELSE Append(rows, new_row)
\* ... and when the append of new_row failed after the header went through
AfterHeaderOnly(rows) ==
    IF get_all_records(rows) = << >> THEN Append(rows, HeaderRow) ELSE rows

\* ---------------------------------------------------------------- the email
Subject(num) == << "Invoice " >> \o num \o << " from MALKIT SWEETS AND CATERING" >>
EmailBody(vendor, num) ==
    << "Hello " >> \o vendor \o << ",\n\nPlease find attached Invoice " >> \o num
    \o << ".\n\nThank you,\nMALKIT SWEETS AND CATERING" >>

\* ------------------------------------------------------------- responses
NoResp == [ status |-> 0, body |-> << >> ]
Resp(status, body) == [ status |-> status, body |-> body ]

\* ------------------------------------------- the builder's item loop alone
\* Items a client may send: numbers, numeric strings, absent keys (the
\* defaults apply), and values float() rejects.
ItemValues ==
    { Item("ladoo", Num(2), Num(300)),
      Item("barfi", Str(<< "3" >>), Num(400)),
      Item("peda", Absent, Str(<< "1", "5", "0" >>)),
      Item("jalebi", Str(<< "x" >>), Num(300)),
      Item("kaju", Num(1), Null),
      Item("halwa", Null, Str(<< >>)) }
RECURSIVE ItemLists(_)
ItemLists(n) ==
    IF n = 0 THEN { << >> }
    ELSE ItemLists(n - 1) \cup
         { Append(l, i) : l \in { l \in ItemLists(n - 1) : Len(l) = n - 1 }, i \in ItemValues }
NotBuilt == [ table_data |-> << >>, grand_total |-> 0, raised |-> FALSE ]

\* ------------------------------------------------- the record keys alone
\* key.strip().lower().replace(' ', '_'), the key of a record in the read
\* endpoints (lines 250, 306, 383, 426, 558)
UpperCase == << "A", "B", "C", "D", "E", "F", "G", "H", "I", "J", "K", "L", "M",
                "N", "O", "P", "Q", "R", "S", "T", "U", "V", "W", "X", "Y", "Z" >>
LowerCase == << "a", "b", "c", "d", "e", "f", "g", "h", "i", "j", "k", "l", "m",
                "n", "o", "p", "q", "r", "s", "t", "u", "v", "w", "x", "y", "z" >>
\* the characters str.strip() removes
Whitespace == { " ", "\t", "\n" }
RECURSIVE lstrip(_)
lstrip(key) ==
    IF key # << >> /\ Head(key) \in Whitespace THEN lstrip(Tail(key)) ELSE key
RECURSIVE rstrip(_)
rstrip(key) ==
    IF key # << >> /\ key[Len(key)] \in Whitespace
    THEN rstrip(SubSeq(key, 1, Len(key) - 1)) ELSE key
strip(key) == rstrip(lstrip(key))
LowerChar(c) ==
    IF \E i \in 1..26 : UpperCase[i] = c
    THEN LowerCase[CHOOSE i \in 1..26 : UpperCase[i] = c] ELSE c
lower(key) == [ i \in 1..Len(key) |-> LowerChar(key[i]) ]
\* str.replace for one-character old and new
replace(key, old, new) == [ i \in 1..Len(key) |-> IF key[i] = old THEN new ELSE key[i] ]

StdKey(key) == replace(lower(strip(key)), " ", "_")

\* Column headers a sheet may carry: every text of up to MaxKeyLen of
\* KeyChars, and the spellings of the vendor email column
KeyChars == { " ", "\t", "_", "e", "E" }
RECURSIVE Keys(_)
Keys(n) ==
    IF n = 0 THEN { << >> }
    ELSE Keys(n - 1) \cup
         { Append(k, c) : k \in { k \in Keys(n - 1) : Len(k) = n - 1 }, c \in KeyChars }
VendorEmailOneSpace ==
    << "V", "e", "n", "d", "o", "r", " ", "E", "m", "a", "i", "l" >>
VendorEmailTwoSpaces ==
    << "V", "e", "n", "d", "o", "r", " ", " ", "E", "m", "a", "i", "l" >>
VendorEmailSnake ==
    << "v", "e", "n", "d", "o", "r", "_", "e", "m", "a", "i", "l" >>
VendorEmailPadded ==
    << " ", "V", "E", "N", "D", "O", "R", "_", "E", "M", "A", "I", "L", " " >>
Headers ==
    Keys(MaxKeyLen) \cup { VendorEmailOneSpace, VendorEmailTwoSpaces,
                           VendorEmailSnake, VendorEmailPadded }
NoKey == [ done |-> FALSE, key |-> << >> ]

\* ------------------------------------------------ the mail function alone
\* EMAIL_HOST_USER, EMAIL_HOST_PASSWORD, SENDER_EMAIL: those that are set;
\* file_exists: whether file_path names a file
Settings == { "EMAIL_HOST_USER", "EMAIL_HOST_PASSWORD", "SENDER_EMAIL" }
SenderAddress == << "s", "@", "b", ".", "c", "o" >>
MailInputs ==
    [ settings : SUBSET Settings, recipient_email : { GoodEmail, BadEmail },
      file_exists : BOOLEAN ]
NoMailInput == [ settings |-> { }, recipient_email |-> << >>, file_exists |-> FALSE ]
\* [recipient_email, SENDER_EMAIL], the addresses handed to sendmail
Recipients == { mail_in.recipient_email, SenderAddress }
\* server: the local of that name ("unbound" before smtplib.SMTP() returned);
\* accepted: the addresses the relay took the message for; error: the call
\* that raised inside the try; result: what the function returned
NoCall ==
    [ pc |-> "none", server |-> "unbound", accepted |-> { }, error |-> "none",
      quit_raised |-> FALSE, result |-> "none" ]
Called == [ NoCall EXCEPT !.pc = "settings" ]

\* ------------------------------------------------------------------- Init
\* No request has arrived yet.
NoRequests ==
    /\ now = 0
    /\ draftRows = InitDraftRows
    /\ tmp = [ q \in { } |-> 0 ]
    /\ mailbox = { }
    /\ drive = { }
    /\ pc = [ p \in Reqs |-> "idle" ]
    /\ kind = [ p \in Reqs |-> "none" ]
    /\ data = [ p \in Reqs |-> NoData ]
    /\ invoice_num = [ p \in Reqs |-> << >> ]
    /\ seen = [ p \in Reqs |-> -1 ]
    /\ pdf = [ p \in Reqs |-> NoPdf ]
    /\ emailRes = [ p \in Reqs |-> "none" ]
    /\ ledgerRes = [ p \in Reqs |-> "none" ]
    /\ uploadRes = [ p \in Reqs |-> "none" ]
    /\ fileRes = [ p \in Reqs |-> "none" ]
    /\ resp = [ p \in Reqs |-> NoResp ]

Init ==
    /\ NoRequests
    /\ sheet \in { << >>, << HeaderRow >> }
    /\ pdf_in = << >>
    /\ pdf_out = NotBuilt
    /\ key_in = << >>
    /\ key_out = NoKey
    /\ mail_in = NoMailInput
    /\ mail = NoCall

\* The file at path exists / the files of /tmp with path written by p
Exists(path) == path \in DOMAIN tmp
Write(path, p) == [ q \in DOMAIN tmp \cup { path } |-> IF q = path THEN p ELSE tmp[q] ]
Remove(path) == [ q \in DOMAIN tmp \ { path } |-> tmp[q] ]

Finish(p, r) ==
    /\ pc' = [ pc EXCEPT ![p] = "done" ]
    /\ resp' = [ resp EXCEPT ![p] = r ]
Goto(p, label) ==
    /\ pc' = [ pc EXCEPT ![p] = label ]
    /\ UNCHANGED resp

\* datetime.now() returns t, a time in now..MaxNow: no earlier than it last
\* returned; a step that does not call it leaves the clock as it was read last
ClockReads(t) == now' = t

\* ------------------------------------------------------ POST /generate-invoice
\* lines 492-502: the body is read and checked for its required fields
generate_invoice(p) ==
    /\ pc[p] = "idle"
    /\ \E d \in Bodies :
        /\ data' = [ data EXCEPT ![p] = d ]
        /\ IF IsEmpty(d)
           THEN Finish(p, Resp(400, << "No data provided" >>))
           ELSE IF MissingFields(d) # { }
           THEN Finish(p, Resp(400, << "Missing required fields" >>))
           ELSE Goto(p, "number")
    /\ kind' = [ kind EXCEPT ![p] = "invoice" ]
    /\ UNCHANGED << now, sheet, draftRows, tmp, mailbox, drive, invoice_num, seen, pdf,
                    emailRes, ledgerRes, uploadRes, fileRes, pdf_in, pdf_out,
                    key_in, key_out, mail_in, mail >>

\* get_next_invoice_number without its "except": a failed read ends the request
get_next_invoice_number_Raises(p) ==
    /\ pc[p] = "number"
    /\ \E read_ok \in BOOLEAN :
        LET records == get_all_records(sheet) IN
        IF read_ok
        THEN /\ invoice_num' = [ invoice_num EXCEPT ![p] = SequentialNumber(records) ]
             /\ seen' = [ seen EXCEPT ![p] = Len(records) ]
             /\ Goto(p, "render")
        ELSE /\ Finish(p, Resp(500, << "APIError" >>))
             /\ UNCHANGED << invoice_num, seen >>
    /\ UNCHANGED << now, sheet, draftRows, tmp, mailbox, drive, kind, data, pdf,
                    emailRes, ledgerRes, uploadRes, fileRes, pdf_in, pdf_out,
                    key_in, key_out, mail_in, mail >>

\* get_next_invoice_number as it would be with a lock held from the read to
\* the append
get_next_invoice_number_Locked(p) ==
    /\ pc[p] = "number"
    /\ \A q \in Reqs : pc[q] \notin { "render", "email", "ledger" }
    /\ \E read_ok \in BOOLEAN, t \in now..MaxNow :
        LET records == get_all_records(sheet) IN
        /\ ClockReads(IF read_ok THEN now ELSE t)
        /\ invoice_num' = [ invoice_num EXCEPT ![p] =
                              IF read_ok THEN SequentialNumber(records)
                              ELSE FallbackNumber(t) ]
        /\ seen' = [ seen EXCEPT ![p] = IF read_ok THEN Len(records) ELSE -1 ]
    /\ Goto(p, "render")
    /\ UNCHANGED << sheet, draftRows, tmp, mailbox, drive, kind, data, pdf,
                    emailRes, ledgerRes, uploadRes, fileRes, pdf_in, pdf_out,
                    key_in, key_out, mail_in, mail >>

\* lines 191-196 and 504-505: the next number, from the ledger or from the clock
get_next_invoice_number(p) ==
    /\ pc[p] = "number"
    /\ \E read_ok \in BOOLEAN, t \in now..MaxNow :
        LET records == get_all_records(sheet) IN
        /\ ClockReads(IF read_ok THEN now ELSE t)
        /\ invoice_num' = [ invoice_num EXCEPT ![p] =
                              IF read_ok THEN SequentialNumber(records)
                              ELSE FallbackNumber(t) ]
        /\ seen' = [ seen EXCEPT ![p] = IF read_ok THEN Len(records) ELSE -1 ]
    /\ Goto(p, "render")
    /\ UNCHANGED << sheet, draftRows, tmp, mailbox, drive, kind, data, pdf,
                    emailRes, ledgerRes, uploadRes, fileRes, pdf_in, pdf_out,
                    key_in, key_out, mail_in, mail >>

\* lines 507-511: the document is built and written to /tmp
Render(p) ==
    /\ pc[p] = "render"
    /\ IF RenderRaises(data[p])
       THEN /\ Finish(p, Resp(500, << "Failed to create PDF" >>))
            /\ UNCHANGED << tmp, pdf, fileRes >>
       ELSE LET out == create_invoice_pdf(invoice_num[p], data[p]) IN
            /\ pdf' = [ pdf EXCEPT ![p] = out ]
            /\ tmp' = Write(out.pdf_path, p)
            /\ fileRes' = [ fileRes EXCEPT ![p] = "written" ]
            /\ Goto(p, "email")
    /\ UNCHANGED << now, sheet, draftRows, mailbox, drive, kind, data, invoice_num, seen,
                    emailRes, ledgerRes, uploadRes, pdf_in, pdf_out,
                    key_in, key_out, mail_in, mail >>

\* the email step with the result of the send ignored
SendEmail_ResultIgnored(p) ==
    /\ pc[p] = "email"
    /\ \E outcome \in { "smtp_error", "sent" } :
        /\ Exists(pdf[p].pdf_path)
        /\ IF outcome = "smtp_error"
           THEN /\ emailRes' = [ emailRes EXCEPT ![p] = "failed" ]
                /\ UNCHANGED mailbox
           ELSE /\ emailRes' = [ emailRes EXCEPT ![p] = "sent" ]
                /\ mailbox' = mailbox \cup
                     { [ by |-> p, to |-> data[p].vendor_email,
                         subject |-> Subject(invoice_num[p]),
                         body |-> EmailBody(data[p].vendor_name, invoice_num[p]),
                         attachment |-> pdf[p].file_name,
                         content |-> tmp[pdf[p].pdf_path] ] }
    /\ Goto(p, "ledger")
    /\ UNCHANGED << now, sheet, draftRows, tmp, drive, kind, data, invoice_num, seen, pdf,
                    ledgerRes, uploadRes, fileRes, pdf_in, pdf_out,
                    key_in, key_out, mail_in, mail >>

\* lines 513-517 and 209-241: the message is built and handed to the relay
SendEmail(p) ==
    /\ pc[p] = "email"
    /\ \E outcome \in { "not_configured", "smtp_error", "sent" } :
        IF outcome = "not_configured"
        THEN /\ emailRes' = [ emailRes EXCEPT ![p] = "failed" ]
             /\ Finish(p, Resp(500, << "Failed to send email" >>))
             /\ UNCHANGED mailbox
        ELSE IF ~Exists(pdf[p].pdf_path)
        THEN \* open(file_path, "rb") raises: caught at line 537
             /\ emailRes' = [ emailRes EXCEPT ![p] = "raised" ]
             /\ Finish(p, Resp(500, << "No such file or directory" >>))
             /\ UNCHANGED mailbox
        ELSE IF outcome = "smtp_error"
        THEN /\ emailRes' = [ emailRes EXCEPT ![p] = "failed" ]
             /\ Finish(p, Resp(500, << "Failed to send email" >>))
             /\ UNCHANGED mailbox
        ELSE /\ emailRes' = [ emailRes EXCEPT ![p] = "sent" ]
             /\ mailbox' = mailbox \cup
                  { [ by |-> p, to |-> data[p].vendor_email,
                      subject |-> Subject(invoice_num[p]),
                      body |-> EmailBody(data[p].vendor_name, invoice_num[p]),
                      attachment |-> pdf[p].file_name,
                      content |-> tmp[pdf[p].pdf_path] ] }
             /\ Goto(p, "ledger")
    /\ UNCHANGED << now, sheet, draftRows, tmp, drive, kind, data, invoice_num, seen, pdf,
                    ledgerRes, uploadRes, fileRes, pdf_in, pdf_out,
                    key_in, key_out, mail_in, mail >>

\* lines 520 and 198-207: the ledger row is appended, any failure printed
add_invoice_to_sheet(p) ==
    /\ pc[p] = "ledger"
    /\ \E outcome \in { "read_fails", "append_fails", "ok" }, t \in now..MaxNow :
        /\ ClockReads(IF outcome = "read_fails" THEN now ELSE t)
        /\ sheet' =
             CASE outcome = "read_fails" -> sheet
               [] outcome = "append_fails" -> AfterHeaderOnly(sheet)
               [] OTHER -> AfterAppend(sheet, NewRow(t, invoice_num[p], data[p],
                                                      pdf[p].grand_total))
        /\ ledgerRes' = [ ledgerRes EXCEPT ![p] = outcome ]
    /\ Goto(p, "upload")
    /\ UNCHANGED << draftRows, tmp, mailbox, drive, kind, data, invoice_num, seen,
                    pdf, emailRes, uploadRes, fileRes, pdf_in, pdf_out,
                    key_in, key_out, mail_in, mail >>

\* lines 521 and 172-189: the file is uploaded to the archive, any failure printed
upload_to_google_drive(p) ==
    /\ pc[p] = "upload"
    /\ \E outcome \in { "drive_error", "ok" } :
        IF outcome = "ok" /\ Exists(pdf[p].pdf_path)
        THEN /\ drive' = drive \cup { [ by |-> p, name |-> pdf[p].file_name,
                                        content |-> tmp[pdf[p].pdf_path] ] }
             /\ uploadRes' = [ uploadRes EXCEPT ![p] = "ok" ]
        ELSE /\ uploadRes' = [ uploadRes EXCEPT ![p] = "failed" ]
             /\ UNCHANGED drive
    /\ Goto(p, "draft")
    /\ UNCHANGED << now, sheet, draftRows, tmp, mailbox, kind, data, invoice_num, seen,
                    pdf, emailRes, ledgerRes, fileRes, pdf_in, pdf_out,
                    key_in, key_out, mail_in, mail >>

\* lines 526-531: the draft the invoice came from is deleted, any failure printed
DeleteDraft(p) ==
    /\ pc[p] = "draft"
    /\ \E deleted \in BOOLEAN :
        draftRows' = IF data[p].row_number # 0 /\ deleted /\ data[p].row_number <= draftRows
                     THEN draftRows - 1 ELSE draftRows
    /\ Goto(p, "exists")
    /\ UNCHANGED << now, sheet, tmp, mailbox, drive, kind, data, invoice_num, seen, pdf,
                    emailRes, ledgerRes, uploadRes, fileRes, pdf_in, pdf_out,
                    key_in, key_out, mail_in, mail >>

Done200(p) == Resp(200, << "Invoice " >> \o invoice_num[p] \o << " generated and sent." >>)

\* line 533: os.path.exists(pdf_path)
CheckExists(p) ==
    /\ pc[p] = "exists"
    /\ IF Exists(pdf[p].pdf_path) THEN Goto(p, "remove") ELSE Finish(p, Done200(p))
    /\ UNCHANGED << now, sheet, draftRows, tmp, mailbox, drive, kind, data, invoice_num,
                    seen, pdf, emailRes, ledgerRes, uploadRes, fileRes,
                    pdf_in, pdf_out,
                    key_in, key_out, mail_in, mail >>

\* lines 534-536: os.remove(pdf_path), which raises when the file is gone
RemoveFile(p) ==
    /\ pc[p] = "remove"
    /\ IF Exists(pdf[p].pdf_path)
       THEN /\ tmp' = Remove(pdf[p].pdf_path)
            /\ fileRes' = [ fileRes EXCEPT ![p] = "removed" ]
            /\ Finish(p, Done200(p))
       ELSE /\ Finish(p, Resp(500, << "No such file or directory" >>))
            /\ UNCHANGED << tmp, fileRes >>
    /\ UNCHANGED << now, sheet, draftRows, mailbox, drive, kind, data, invoice_num, seen,
                    pdf, emailRes, ledgerRes, uploadRes, pdf_in, pdf_out,
                    key_in, key_out, mail_in, mail >>

\* ------------------------------------------------ POST /download-draft-preview
\* f"DRAFT-{data.get('row_number', 'PREVIEW')}"
DraftNumber(d) ==
    << "DRAFT-" >> \o (IF d.row_number = 0 THEN << "PREVIEW" >> ELSE Digits(d.row_number))

\* lines 544-546
download_draft_preview(p) ==
    /\ pc[p] = "idle"
    /\ \E d \in Bodies :
        /\ data' = [ data EXCEPT ![p] = d ]
        /\ IF IsEmpty(d)
           THEN /\ Finish(p, Resp(400, << "No data provided" >>))
                /\ UNCHANGED invoice_num
           ELSE /\ invoice_num' = [ invoice_num EXCEPT ![p] = DraftNumber(d) ]
                /\ Goto(p, "preview_render")
    /\ kind' = [ kind EXCEPT ![p] = "preview" ]
    /\ UNCHANGED << now, sheet, draftRows, tmp, mailbox, drive, seen, pdf, emailRes,
                    ledgerRes, uploadRes, fileRes, pdf_in, pdf_out,
                    key_in, key_out, mail_in, mail >>

\* line 547
PreviewRender(p) ==
    /\ pc[p] = "preview_render"
    /\ IF RenderRaises(data[p])
       THEN /\ Finish(p, Resp(500, << "time data does not match format" >>))
            /\ UNCHANGED << tmp, pdf, fileRes >>
       ELSE LET out == create_invoice_pdf(invoice_num[p], data[p]) IN
            /\ pdf' = [ pdf EXCEPT ![p] = out ]
            /\ tmp' = Write(out.pdf_path, p)
            /\ fileRes' = [ fileRes EXCEPT ![p] = "written" ]
            /\ Goto(p, "preview_send")
    /\ UNCHANGED << now, sheet, draftRows, mailbox, drive, kind, data, invoice_num, seen,
                    emailRes, ledgerRes, uploadRes, pdf_in, pdf_out,
                    key_in, key_out, mail_in, mail >>

\* line 548: send_file answers with the file, which stays in /tmp
PreviewSend(p) ==
    /\ pc[p] = "preview_send"
    /\ IF Exists(pdf[p].pdf_path)
       THEN Finish(p, Resp(200, pdf[p].file_name))
       ELSE Finish(p, Resp(500, << "No such file or directory" >>))
    /\ UNCHANGED << now, sheet, draftRows, tmp, mailbox, drive, kind, data, invoice_num,
                    seen, pdf, emailRes, ledgerRes, uploadRes, fileRes,
                    pdf_in, pdf_out,
                    key_in, key_out, mail_in, mail >>

\* lines 141-151, 158 on an item list of its own
BuildItems ==
    /\ pdf_out = NotBuilt
    /\ pdf_in # << >>
    /\ pdf_out' = ItemsTable(pdf_in)
    /\ UNCHANGED << now, sheet, draftRows, tmp, mailbox, drive, pc, kind, data,
                    invoice_num, seen, pdf, emailRes, ledgerRes, uploadRes, fileRes,
                    resp, pdf_in, key_in, key_out, mail_in, mail >>

\* the key of one column header, as the dict comprehension of a read endpoint
\* computes it
NormalizeKey ==
    /\ ~key_out.done
    /\ key_in # << >>
    /\ key_out' = [ done |-> TRUE, key |-> StdKey(key_in) ]
    /\ UNCHANGED << now, sheet, draftRows, tmp, mailbox, drive, pc, kind, data,
                    invoice_num, seen, pdf, emailRes, ledgerRes, uploadRes, fileRes,
                    resp, pdf_in, pdf_out, key_in, mail_in, mail >>

\* ------------------------------------------- send_email_with_attachment alone
MailStep(next) ==
    /\ mail' = next
    /\ UNCHANGED << now, sheet, draftRows, tmp, mailbox, drive, pc, kind, data,
                    invoice_num, seen, pdf, emailRes, ledgerRes, uploadRes, fileRes,
                    resp, pdf_in, pdf_out, key_in, key_out, mail_in >>

\* lines 210-212: "if not all([...]): return False"
MailSettings ==
    /\ mail.pc = "settings"
    /\ MailStep(IF mail_in.settings = Settings
                THEN [ mail EXCEPT !.pc = "attach" ]
                ELSE [ mail EXCEPT !.pc = "returned", !.result = "False" ])

\* lines 214-226: the message is built; open(file_path, "rb") is outside any
\* try and raises when there is no such file
MailAttach ==
    /\ mail.pc = "attach"
    /\ MailStep(IF mail_in.file_exists
                THEN [ mail EXCEPT !.pc = "connect" ]
                ELSE [ mail EXCEPT !.pc = "returned", !.result = "raised" ])

\* line 229: smtplib.SMTP(EMAIL_HOST, EMAIL_PORT); when it raises, server
\* stays unbound
MailConnect ==
    /\ mail.pc = "connect"
    /\ \E ok \in BOOLEAN :
        MailStep(IF ok
                 THEN [ mail EXCEPT !.pc = "starttls", !.server = "open" ]
                 ELSE [ mail EXCEPT !.pc = "finally", !.error = "connect" ])

\* line 230
MailStartTls ==
    /\ mail.pc = "starttls"
    /\ \E ok \in BOOLEAN :
        MailStep(IF ok
                 THEN [ mail EXCEPT !.pc = "login" ]
                 ELSE [ mail EXCEPT !.pc = "finally", !.error = "starttls" ])

\* line 231
MailLogin ==
    /\ mail.pc = "login"
    /\ \E ok \in BOOLEAN :
        MailStep(IF ok
                 THEN [ mail EXCEPT !.pc = "sendmail" ]
                 ELSE [ mail EXCEPT !.pc = "finally", !.error = "login" ])

\* lines 232-233: server.sendmail(SENDER_EMAIL, [recipient_email, SENDER_EMAIL],
\* ...) raises when the relay refuses the sender, every recipient or the
\* message data; it returns (the refused recipients, which the code drops)
\* when the relay took the message for at least one recipient
MailSendmail ==
    /\ mail.pc = "sendmail"
    /\ \E sender_ok, data_ok \in BOOLEAN, taken \in SUBSET Recipients :
        MailStep(CASE ~sender_ok ->
                        [ mail EXCEPT !.pc = "finally", !.error = "SMTPSenderRefused" ]
                   [] sender_ok /\ taken = { } ->
                        [ mail EXCEPT !.pc = "finally", !.error = "SMTPRecipientsRefused" ]
                   [] sender_ok /\ taken # { } /\ ~data_ok ->
                        [ mail EXCEPT !.pc = "finally", !.error = "SMTPDataError" ]
                   [] OTHER ->
                        [ mail EXCEPT !.pc = "finally", !.accepted = taken ])

\* lines 234-241: "return True", or "except Exception: return False", after
\* the finally clause ran server.quit() inside "try ... except: pass"; quit
\* on an unbound server raises NameError, and smtplib closes the connection
\* also when quit raises
MailQuit ==
    /\ mail.pc = "finally"
    /\ \E raises \in BOOLEAN :
        MailStep([ mail EXCEPT
                     !.pc = "returned",
                     !.server = IF mail.server = "unbound" THEN "unbound" ELSE "closed",
                     !.quit_raised = raises \/ mail.server = "unbound",
                     !.result = IF mail.error = "none" THEN "True" ELSE "False" ])

\* ------------------------------------------------------------ specifications
Step(p) ==
    \/ get_next_invoice_number(p)
    \/ Render(p)
    \/ SendEmail(p)
    \/ add_invoice_to_sheet(p)
    \/ upload_to_google_drive(p)
    \/ DeleteDraft(p)
    \/ CheckExists(p)
    \/ RemoveFile(p)
    \/ PreviewRender(p)
    \/ PreviewSend(p)

\* Requests arrive at any time and are served in parallel.
Arrives(p) == \A q \in Reqs : q < p => pc[q] # "idle"
Next ==
    \/ \E p \in Reqs : Arrives(p) /\ generate_invoice(p)
    \/ \E p \in Reqs : Arrives(p) /\ download_draft_preview(p)
    \/ \E p \in Reqs : Step(p)

Spec == Init /\ [][Next]_vars

\* Sequential use: a request arrives only when no other is being handled.
Quiet == \A q \in Reqs : pc[q] \in { "idle", "done" }
NextSeq ==
    \/ \E p \in Reqs : Arrives(p) /\ Quiet /\ generate_invoice(p)
    \/ \E p \in Reqs : Arrives(p) /\ Quiet /\ download_draft_preview(p)
    \/ \E p \in Reqs : Step(p)

SpecSeq == Init /\ [][NextSeq]_vars

\* The item loop of the builder on every item list of up to MaxItems items.
InitPdf ==
    /\ NoRequests
    /\ sheet = << >>
    /\ pdf_in \in ItemLists(MaxItems) \ { << >> }
    /\ pdf_out = NotBuilt
    /\ key_in = << >>
    /\ key_out = NoKey
    /\ mail_in = NoMailInput
    /\ mail = NoCall
NextPdf == BuildItems
SpecPdf == InitPdf /\ [][NextPdf]_vars

\* The key normalizer on every header of Headers.
InitKeys ==
    /\ NoRequests
    /\ sheet = << >>
    /\ pdf_in = << >>
    /\ pdf_out = NotBuilt
    /\ key_in \in Headers \ { << >> }
    /\ key_out = NoKey
    /\ mail_in = NoMailInput
    /\ mail = NoCall
NextKeys == NormalizeKey
SpecKeys == InitKeys /\ [][NextKeys]_vars

\* One call of send_email_with_attachment under every configuration, with
\* and without the file, against a relay that may fail at every step.
InitMail ==
    /\ NoRequests
    /\ sheet = << >>
    /\ pdf_in = << >>
    /\ pdf_out = NotBuilt
    /\ key_in = << >>
    /\ key_out = NoKey
    /\ mail_in \in MailInputs
    /\ mail = Called
NextMail ==
    \/ MailSettings
    \/ MailAttach
    \/ MailConnect
    \/ MailStartTls
    \/ MailLogin
    \/ MailSendmail
    \/ MailQuit
SpecMail == InitMail /\ [][NextMail]_vars

\* ------------------------------------------------------------------ claims
\* What the claims call a numeric field: a JSON number or a string of digits;
\* a key the item does not carry takes the builder's default (1 or 0).
Numeric(v) ==
    \/ v.t = "num"
    \/ v.t = "str" /\ Len(v.s) > 0 /\ \A i \in 1..Len(v.s) : v.s[i] \in DigitChars
    \/ v.t = "absent"
ValueOr(v, default) ==
    CASE v.t = "num" -> v.n
      [] v.t = "str" -> DigitsValue(v.s)
      [] OTHER -> default
ValidItem(item) == Numeric(item.quantity) /\ Numeric(item.price)
ValidIndexes(items) == { i \in 1..Len(items) : ValidItem(items[i]) }
RECURSIVE SumValid(_, _)
SumValid(items, S) ==
    IF S = { } THEN 0
    ELSE LET i == CHOOSE i \in S : TRUE
         IN  ValueOr(items[i].quantity, 1) * ValueOr(items[i].price, 0)
             + SumValid(items, S \ { i })

\* C6: for an item list with N valid items and M items whose quantity or price
\* is not numeric, in any order, the builder's grand total is the sum of
\* quantity x price over exactly the N valid items, the items table holds the
\* header row and exactly N item rows, and the loop does not raise.
C6_TotalOverValidItems ==
    pdf_out # NotBuilt =>
        /\ ~pdf_out.raised
        /\ pdf_out.grand_total = SumValid(pdf_in, ValidIndexes(pdf_in))
        /\ Len(pdf_out.table_data) = Cardinality(ValidIndexes(pdf_in)) + 1
        /\ pdf_out.table_data[1] = TableHeader

\* C6 witness: a built table for a list where an invalid item comes before a
\* valid one and another valid one before an invalid one
C6_Witness ==
    /\ pdf_out # NotBuilt
    /\ Len(pdf_in) = 3
    /\ ~ValidItem(pdf_in[1]) /\ ValidItem(pdf_in[2]) /\ ~ValidItem(pdf_in[3])
    /\ pdf_out.grand_total = 1200
    /\ Len(pdf_out.table_data) = 2

\* The number a sequential invoice number carries: int() of what follows "INV-"
IsSequential(num) == Len(num) > 1 /\ num[1] = "INV-"
IsFallback(num) == Len(num) > 1 /\ num[1] = "INV-TS-"
NumberOf(num) == DigitsValue(Tail(num))
Numbered(p) == kind[p] = "invoice" /\ invoice_num[p] # << >>

\* C1: under sequential use, a request whose ledger read returned R records is
\* given "INV-" and R+1 zero-padded to (at least) four digits, and a later
\* request's sequential number is never smaller than an earlier request's.
C1_SequentialNumbering ==
    /\ \A p \in Reqs :
         Numbered(p) /\ seen[p] >= 0 =>
            /\ IsSequential(invoice_num[p])
            /\ Len(invoice_num[p]) = (IF seen[p] + 1 < 10000 THEN 5
                                      ELSE 1 + Len(Digits(seen[p] + 1)))
            /\ \A i \in 2..Len(invoice_num[p]) : invoice_num[p][i] \in DigitChars
            /\ NumberOf(invoice_num[p]) = seen[p] + 1
    /\ \A p, q \in Reqs :
         p < q /\ Numbered(p) /\ Numbered(q) /\ seen[p] >= 0 /\ seen[q] >= 0 =>
            NumberOf(invoice_num[p]) <= NumberOf(invoice_num[q])

\* C1 witness: two requests served one after the other, the first given
\* INV-0001 on an empty ledger and the second INV-0002
C1_Witness ==
    /\ pc[1] = "done" /\ pc[2] = "done"
    /\ resp[1].status = 200 /\ resp[2].status = 200
    /\ seen[1] = 0 /\ invoice_num[1] = << "INV-", "0", "0", "0", "1" >>
    /\ seen[2] = 1 /\ invoice_num[2] = << "INV-", "0", "0", "0", "2" >>

\* C2: no lock or atomic step keeps a request from reading the ledger while
\* another holds a number it has not appended yet: whenever a request stands
\* before its ledger read and another, whose read saw the ledger as it still
\* is, has not appended its row, the first can be given that same number.
InFlightBeforeAppend(q) ==
    /\ Numbered(q) /\ seen[q] >= 0
    /\ pc[q] \in { "render", "email", "ledger" }
C2_NoExclusion ==
    \A p, q \in Reqs :
        /\ p # q
        /\ pc[p] = "number"
        /\ InFlightBeforeAppend(q)
        /\ seen[q] = Len(get_all_records(sheet))
        => ENABLED (get_next_invoice_number(p) /\ invoice_num'[p] = invoice_num[q])

\* C2 witness: two requests both answered 200 with the same sequential number,
\* each with its row in the ledger
C2_Witness ==
    \E p, q \in Reqs :
        /\ p # q
        /\ Numbered(p) /\ Numbered(q)
        /\ seen[p] >= 0 /\ seen[q] = seen[p]
        /\ invoice_num[p] = invoice_num[q]
        /\ resp[p].status = 200 /\ resp[q].status = 200
        /\ ledgerRes[p] = "ok" /\ ledgerRes[q] = "ok"

\* What the ledger and the archive hold
InvoiceRows == SelectSeq(sheet, LAMBDA row : row # HeaderRow)
Emailed(p) == \E m \in mailbox : m.by = p
Contains(text, piece) ==
    \E i \in 1..(Len(text) - Len(piece) + 1) : SubSeq(text, i, i + Len(piece) - 1) = piece

\* C3: the ledger append and the archive upload happen only after the document
\* was rendered and the email send returned true; a failed render answers 500
\* with no email, append or upload attempted; a failed send answers 500 with
\* no append and no upload attempted.
C3_RecordsOnlyAfterEmail ==
    /\ \A p \in Reqs :
         kind[p] = "invoice" =>
            /\ (ledgerRes[p] # "none" \/ uploadRes[p] # "none")
                  => (fileRes[p] # "none" /\ emailRes[p] = "sent")
            /\ (pc[p] = "done" /\ Numbered(p) /\ fileRes[p] = "none")
                  => /\ resp[p].status = 500
                     /\ emailRes[p] = "none" /\ ledgerRes[p] = "none"
                     /\ uploadRes[p] = "none" /\ ~Emailed(p)
            /\ (pc[p] = "done" /\ emailRes[p] \in { "failed", "raised" })
                  => /\ resp[p].status = 500
                     /\ ledgerRes[p] = "none" /\ uploadRes[p] = "none"
    /\ Len(InvoiceRows) = Cardinality({ p \in Reqs : ledgerRes[p] = "ok" })
    /\ \A f \in drive : emailRes[f.by] = "sent" /\ Emailed(f.by)

\* C3 witness: one request stopped by a failed render and one by a failed send,
\* both answered 500, and the ledger and the archive untouched
C3_Witness ==
    /\ pc[1] = "done" /\ kind[1] = "invoice" /\ Numbered(1)
    /\ fileRes[1] = "none" /\ resp[1].status = 500
    /\ pc[2] = "done" /\ kind[2] = "invoice"
    /\ fileRes[2] = "written" /\ emailRes[2] = "failed" /\ resp[2].status = 500
    /\ InvoiceRows = << >> /\ drive = { } /\ mailbox = { }

\* C4: once the email is sent, a failed ledger append or a failed archive
\* upload is only logged: the upload is attempted whatever the append did,
\* the request answers 200, and the sent email and the appended row stay.
RowOf(p) ==
    \E i \in 1..Len(sheet) :
        /\ sheet[i] # HeaderRow
        /\ sheet[i][2] = invoice_num[p]
        /\ sheet[i][4] = data[p].vendor_name
C4_BestEffortAnswers200 ==
    \A p \in Reqs :
        kind[p] = "invoice" /\ emailRes[p] = "sent" =>
            /\ pc[p] \in { "draft", "exists", "remove", "done" } => uploadRes[p] # "none"
            /\ Emailed(p)
            /\ ledgerRes[p] = "ok" => RowOf(p)
            /\ (pc[p] = "done" /\ (ledgerRes[p] \in { "read_fails", "append_fails" }
                                    \/ uploadRes[p] = "failed"))
                  => resp[p].status = 200

\* C5: a request whose vendor_email does not match local@domain.tld, with every
\* required field present, answers 400 and sends no email, appends no ledger
\* row and attempts no upload.
C5_InvalidEmailRejected ==
    \A p \in Reqs :
        /\ kind[p] = "invoice"
        /\ ~IsEmpty(data[p]) /\ MissingFields(data[p]) = { }
        /\ ~is_valid_email(data[p].vendor_email)
        => /\ emailRes[p] = "none" /\ ~Emailed(p)
           /\ ledgerRes[p] = "none" /\ uploadRes[p] = "none"
           /\ pc[p] = "done" => resp[p].status = 400

\* C7 as amended: a request answered 200 whose ledger append went through has a
\* ledger row carrying its invoice number and, in the Total column, the grand
\* total with a "$" prefix and two decimals; the subject and the body of its
\* email and the response message carry that invoice number; the email body
\* shows no amount.
ClaimedTotal(p) == SumValid(data[p].items, ValidIndexes(data[p].items))
Answered200WithRow(p) ==
    kind[p] = "invoice" /\ pc[p] = "done" /\ resp[p].status = 200 /\ ledgerRes[p] = "ok"
C7_TotalInLedgerNumberInEmail ==
    \A p \in Reqs :
        Answered200WithRow(p) =>
            /\ pdf[p].grand_total = ClaimedTotal(p)
            /\ \E i \in 1..Len(sheet) :
                  /\ sheet[i][2] = invoice_num[p]
                  /\ sheet[i][6] = Money(ClaimedTotal(p))
            /\ \E m \in mailbox :
                  /\ m.by = p
                  /\ Contains(m.subject, invoice_num[p])
                  /\ Contains(m.body, invoice_num[p])
                  /\ \A i \in 1..Len(m.body) : m.body[i] # "$"
            /\ Contains(resp[p].body, invoice_num[p])

\* C7 witness: 2 x $3.00 and 1 x $4.00 on an empty ledger: INV-0001, "$10.00"
C7_Witness ==
    /\ Answered200WithRow(1)
    /\ data[1].items = TwoItems
    /\ invoice_num[1] = << "INV-", "0", "0", "0", "1" >>
    /\ \E i \in 1..Len(sheet) :
          /\ sheet[i][2] = invoice_num[1]
          /\ sheet[i][6] = << "$", "1", "0", ".", "0", "0" >>

\* C7 as claimed: ... and the email body too displays the grand total.
C7_TotalInLedgerAndEmailBody ==
    \A p \in Reqs :
        Answered200WithRow(p) =>
            /\ \E i \in 1..Len(sheet) :
                  /\ sheet[i][2] = invoice_num[p]
                  /\ sheet[i][6] = Money(ClaimedTotal(p))
            /\ \E m \in mailbox :
                  /\ m.by = p
                  /\ Contains(m.subject, invoice_num[p])
                  /\ Contains(m.body, Money(ClaimedTotal(p)))
            /\ Contains(resp[p].body, invoice_num[p])

\* C8: a request that wrote an artifact file has deleted it by the time its
\* handling ends, on every exit path.
C8_ArtifactDeletedAtEnd ==
    \A p \in Reqs :
        pc[p] = "done" /\ fileRes[p] # "none" =>
            /\ fileRes[p] = "removed"
            /\ ~Exists(pdf[p].pdf_path)

\* C9: no two requests being handled use the same artifact path, and no
\* request attaches, uploads or finds missing a file another request wrote or
\* removed.
InFlight(p) == pc[p] \notin { "idle", "done" }
C9_ArtifactNeverShared ==
    /\ \A p, q \in Reqs :
          (p # q /\ InFlight(p) /\ InFlight(q) /\ fileRes[p] # "none" /\ fileRes[q] # "none")
             => pdf[p].pdf_path # pdf[q].pdf_path
    /\ \A m \in mailbox : m.content = m.by
    /\ \A f \in drive : f.content = f.by
    /\ \A p \in Reqs : emailRes[p] # "raised"

\* C10: get_next_invoice_number never raises: the handler goes on to the render
\* with a number; the number has the fallback form "INV-TS-" + the digits of
\* the current time in seconds exactly when the ledger read failed.
C10_FallbackIffReadFailed ==
    [][ \A p \in Reqs :
          (pc[p] = "number" /\ pc'[p] # "number") =>
             /\ pc'[p] = "render" /\ resp'[p] = NoResp
             /\ (seen'[p] = -1) <=> IsFallback(invoice_num'[p])
             /\ (seen'[p] >= 0) <=> IsSequential(invoice_num'[p])
             /\ seen'[p] = -1 =>
                   /\ \A i \in 2..Len(invoice_num'[p]) : invoice_num'[p][i] \in DigitChars
                   /\ NumberOf(invoice_num'[p]) = now'
                   /\ Len(invoice_num'[p]) = 1 + Len(Digits(now')) ]_vars

\* C10 witness: a request numbered from the clock at second 1, later answered 200
C10_Witness ==
    \E p \in Reqs :
        /\ kind[p] = "invoice" /\ seen[p] = -1
        /\ invoice_num[p] = << "INV-TS-", "1" >>
        /\ resp[p].status = 200

\* C12: a /generate-invoice request whose date does not parse as month/day/year,
\* every other required field present and valid, answers 400 and sends no
\* email, appends no ledger row and uploads nothing.
C12_MalformedDateAnswers400 ==
    \A p \in Reqs :
        /\ kind[p] = "invoice"
        /\ ~IsEmpty(data[p]) /\ MissingFields(data[p]) = { }
        /\ is_valid_email(data[p].vendor_email)
        /\ ~strptime(data[p].date)
        => /\ emailRes[p] = "none" /\ ~Emailed(p)
           /\ ledgerRes[p] = "none" /\ uploadRes[p] = "none"
           /\ pc[p] = "done" => resp[p].status = 400

\* C14: under sequential use, no two requests that were numbered from a
\* successful ledger read and answered 200 carry the same invoice number, also
\* when an earlier request's row could not be appended (the ledger was read,
\* the append failed and was printed).
Issued(p) ==
    /\ kind[p] = "invoice" /\ pc[p] = "done" /\ resp[p].status = 200
    /\ seen[p] >= 0
    /\ ledgerRes[p] \in { "ok", "append_fails" }
C14_UniqueWhenSequential ==
    \A p, q \in Reqs :
        (p # q /\ Issued(p) /\ Issued(q)) => invoice_num[p] # invoice_num[q]

\* C15: starting from an Invoices region that is empty or holds only its
\* header, the region never holds a header row below row 1, every record below
\* row 1 is the row of an issued invoice, and the records the numbering reads
\* are as many as the invoice rows appended.
HeaderIndexes == { i \in 1..Len(sheet) : sheet[i] = HeaderRow }
C15_OneHeaderRow ==
    /\ sheet # << >> => HeaderIndexes = { 1 }
    /\ \A i \in 2..Len(sheet) : \E p \in Reqs : sheet[i][2] = invoice_num[p]
    /\ Len(get_all_records(sheet)) = Cardinality({ p \in Reqs : ledgerRes[p] = "ok" })

\* C11: send_email_with_attachment never raises; with SMTP settings missing,
\* or after a failed connect, STARTTLS, login or a message the relay rejected,
\* it returns False; it returns True only when the relay took the message for
\* both the recipient and the sender address; and no session it opened is
\* left open when it returns.
C11_SendNeverRaisesSessionClosed ==
    mail.pc = "returned" =>
        /\ mail.result \in { "True", "False" }
        /\ mail_in.settings # Settings => mail.result = "False"
        /\ mail.error # "none" => mail.result = "False"
        /\ mail.result = "True" => mail.accepted = Recipients
        /\ mail.server # "open"

\* C13: normalizing a normalized key returns it unchanged, and the headers
\* 'Vendor  Email' (two spaces), 'vendor_email' and ' VENDOR_EMAIL ' all
\* normalize to 'vendor_email'.
C13_KeysNormalizeAlike ==
    key_out.done =>
        /\ StdKey(key_out.key) = key_out.key
        /\ key_in \in { VendorEmailTwoSpaces, VendorEmailSnake, VendorEmailPadded }
              => key_out.key = VendorEmailSnake

====
